---- MODULE Spec2Model ----
(***************************************************************************)
(* Model of src/app.py, the VANTAGE PROTOCOL dashboard script.             *)
(*                                                                         *)
(* The script is run top to bottom by the framework on every page open,    *)
(* refresh and button click: connections (lines 48-53), load_data behind a *)
(* 10 second cache (55-62), then the dashboard (132-228) whose right       *)
(* column holds the global scan button: execute_agent_3 (65-130) followed  *)
(* by the findings loop (189-205).                                         *)
(*                                                                         *)
(* A ledger row carries the three columns the scan reads: vendor_name,     *)
(* invoice_id, total_amount.  The store sends every column of the table,   *)
(* with None for a missing value.  Strings are TLA+ strings.               *)
(***************************************************************************)
EXTENDS Integers, Sequences, FiniteSets, TLC

VARIABLES
    supabaseOK,      \* st.secrets holds the store credentials and create_client succeeds
    groqKey,         \* st.secrets holds GROQ_API_KEY and Groq(...) succeeds
    table,           \* the rows of audit_ledger in the store
    storeDown,       \* how many of the next store queries fail (a transient outage)
    cache,           \* the st.cache_data entry of load_data
    pc,              \* position of the script run
    trigger,         \* what started the run: "open", "refresh" or "scan" (button click)
    groq_client,     \* line 51-52: TRUE for a client, FALSE for None
    df,              \* line 62
    loadOutcome,     \* what load_data did in this run: "none", "hit", "fetched", "failed"
    attempts,        \* store queries made by load_data in this run
    stats,           \* execute_agent_3: line 69
    targets,         \* execute_agent_3: line 76
    evidence_lines,  \* execute_agent_3: line 79
    findings,        \* line 187: the value execute_agent_3 returned
    valid_findings,  \* line 190
    cards,           \* the intel cards of lines 197-202
    view             \* what the run left on the page

vars == <<supabaseOK, groqKey, table, storeDown, cache, pc, trigger, groq_client,
          df, loadOutcome, attempts, stats, targets, evidence_lines, findings,
          valid_findings, cards, view>>

(***************************************************************************)
(* Bounds of the model and constants of the program.                       *)
(***************************************************************************)
MaxRows == 2

MaxOutage == 3

MaxLines == 2

TTL == 10

HeadLimit == 25

MinLen == 5

None == "None"

Min(a, b) == IF a < b THEN a ELSE b

(***************************************************************************)
(* Vendor names.  groupby returns its groups sorted by key, so the model   *)
(* needs the order of the names: vendor(i) is the i-th name in that order. *)
(***************************************************************************)
Digits == <<"0", "1", "2", "3", "4", "5", "6", "7", "8", "9">>

vendor(i) == "V" \o Digits[(i \div 10) + 1] \o Digits[(i % 10) + 1]

NVendors == HeadLimit + 2

VendorNames == [i \in 1..NVendors |-> vendor(i)]

FreeVendors == {vendor(HeadLimit + 1), vendor(HeadLimit + 2)}

(***************************************************************************)
(* Rows as the store sends them: total_amount is the text of a number, or  *)
(* None.                                                                   *)
(***************************************************************************)
RawAmounts == {"1", "2", None}

RawRows == [vendor_name : FreeVendors \cup {None},
            invoice_id : {"INV", None},
            total_amount : RawAmounts]

RECURSIVE SeqsUpTo(_, _)
SeqsUpTo(S, n) ==
    IF n = 0 THEN {<<>>}
    ELSE LET shorter == SeqsUpTo(S, n - 1)
         IN  shorter \cup {Append(s, x) : s \in {t \in shorter : Len(t) = n - 1}, x \in S}

\* k vendors V01..Vk with one invoice of 1 each
BulkRows(k) == [i \in 1..k |-> [vendor_name |-> VendorNames[i], invoice_id |-> "INV",
                                total_amount |-> "1"]]

(***************************************************************************)
(* Cleanup, lines 136-138: pd.to_numeric(errors='coerce').fillna(0).       *)
(***************************************************************************)
Numerals == ("0" :> 0) @@ ("1" :> 1) @@ ("2" :> 2) @@ ("3" :> 3)

\* text of a number to the number; anything else (None, junk) to NaN, then to 0
to_numeric_fillna(x) == IF x \in DOMAIN Numerals THEN Numerals[x] ELSE 0

Cleanup(t) == [i \in 1..Len(t) |-> [t[i] EXCEPT !.total_amount = to_numeric_fillna(@)]]

(***************************************************************************)
(* execute_agent_3, step 1 (lines 69-72): groupby('vendor_name').agg(...). *)
(* groupby drops the rows whose key is missing and sorts the groups by     *)
(* key; 'sum' adds the amounts; 'count' counts the non-missing invoice_id. *)
(***************************************************************************)
RECURSIVE SumAmount(_)
SumAmount(rows) ==
    IF rows = <<>> THEN 0 ELSE Head(rows).total_amount + SumAmount(Tail(rows))

count(rows) == Len(SelectSeq(rows, LAMBDA r : r.invoice_id # None))

agg(full_df, v) ==
    LET rows == SelectSeq(full_df, LAMBDA r : r.vendor_name = v)
    IN  [vendor_name |-> v, total_spend |-> SumAmount(rows), txn_count |-> count(rows)]

groupby_agg(full_df) ==
    LET keys  == {full_df[i].vendor_name : i \in 1..Len(full_df)} \ {None}
        names == SelectSeq(VendorNames, LAMBDA v : v \in keys)
    IN  [i \in 1..Len(names) |-> agg(full_df, names[i])]

(***************************************************************************)
(* Step 2 (line 76): sort_values(['total_spend', 'txn_count'],             *)
(* ascending=False).head(25).  A sort on several columns is a stable       *)
(* lexicographic sort: rows equal on both keep their order.                *)
(***************************************************************************)
sort_before_by_count(a, b) ==
    \/ a.txn_count > b.txn_count
    \/ a.txn_count = b.txn_count /\ a.total_spend > b.total_spend

sort_before(a, b) ==
    \/ a.total_spend > b.total_spend
    \/ a.total_spend = b.total_spend /\ a.txn_count > b.txn_count

\* x put into the sorted t, behind the rows that do not sort after it
insert_sorted(t, x) ==
    LET pos == Cardinality({i \in 1..Len(t) : ~sort_before(x, t[i])})
    IN  SubSeq(t, 1, pos) \o <<x>> \o SubSeq(t, pos + 1, Len(t))

RECURSIVE sort_first(_, _)
sort_first(s, n) == IF n = 0 THEN <<>> ELSE insert_sorted(sort_first(s, n - 1), s[n])

sort_values(s) == sort_first(s, Len(s))

head_all(s) == s

head(s) == SubSeq(s, 1, Min(HeadLimit, Len(s)))

select_filtered(s) ==
    head(sort_values(SelectSeq(s, LAMBDA g : g.total_spend > 1 \/ g.txn_count >= 2)))

select_targets(s) == head(sort_values(s))

(***************************************************************************)
(* Step 3 (lines 79-84): one evidence line per target.  The f-string is    *)
(* kept as the record of its four fields; ':,.0f' rounds the average to    *)
(* the nearest integer, halves to even.                                    *)
(***************************************************************************)
round_0f(num, den) ==
    LET q == num \div den
        r == num % den
    IN  IF 2 * r < den THEN q
        ELSE IF 2 * r > den THEN q + 1
        ELSE IF q % 2 = 0 THEN q ELSE q + 1

evidence_line(row) ==
    [VENDOR |-> row.vendor_name, TOTAL |-> row.total_spend, COUNT |-> row.txn_count,
     AVG |-> IF row.txn_count > 0 THEN round_0f(row.total_spend, row.txn_count) ELSE 0]

(***************************************************************************)
(* execute_agent_3 (lines 65-130).  Without a client it returns the one    *)
(* sentinel line.  With a client it builds stats, targets, evidence_lines  *)
(* and the prompt, and the function body ends there: no completion call,   *)
(* no return statement, so the call evaluates to None.                     *)
(***************************************************************************)
OfflineLine == "// ERROR: AI OFFLINE"

Unset == [kind |-> "unset", lines |-> <<>>]

ReturnNone == [kind |-> "None", lines |-> <<>>]

ReturnList(ls) == [kind |-> "list", lines |-> ls]

execute_agent_3(full_df, client) ==
    IF ~client
    THEN [ret |-> ReturnList(<<OfflineLine>>), stats |-> <<>>, targets |-> <<>>,
          evidence_lines |-> <<>>]
    ELSE LET st == groupby_agg(full_df)
             tg == select_targets(st)
         IN  [ret |-> ReturnNone, stats |-> st, targets |-> tg,
              evidence_lines |-> [i \in 1..Len(tg) |-> evidence_line(tg[i])]]

(***************************************************************************)
(* The findings loop (lines 189-205): a line becomes an intel card when    *)
(* len(find) > 5 and "::" in find; the card's title and body are the       *)
(* first two parts of find.split('::').  Other lines are passed over.      *)
(***************************************************************************)
Sep == "::"

Contains(line, pat) ==
    \E i \in 1..(Len(line) - Len(pat) + 1) : SubSeq(line, i, i + Len(pat) - 1) = pat

\* the text before the first occurrence of pat, the whole text if there is none
Before(line, pat) ==
    IF Contains(line, pat)
    THEN LET i == CHOOSE k \in 1..Len(line) :
                     /\ SubSeq(line, k, k + Len(pat) - 1) = pat
                     /\ \A m \in 1..(k - 1) : SubSeq(line, m, m + Len(pat) - 1) # pat
         IN  SubSeq(line, 1, i - 1)
    ELSE line

\* the text after the first occurrence of pat
After(line, pat) == SubSeq(line, Len(Before(line, pat)) + Len(pat) + 1, Len(line))

is_finding_any_length(find) == Contains(find, Sep)

is_finding(find) == Len(find) > MinLen /\ Contains(find, Sep)

card(find) == [title |-> Before(find, Sep), body |-> Before(After(find, Sep), Sep)]

intel_cards(lines) ==
    LET accepted == SelectSeq(lines, is_finding)
    IN  [i \in 1..Len(accepted) |-> card(accepted[i])]

(***************************************************************************)
(* load_data (lines 55-60), the body behind the cache: one query of the    *)
(* store inside try/except.  down is the number of queries the store will  *)
(* still fail; connected is FALSE when no store client exists, and then    *)
(* the query raises as well.                                               *)
(***************************************************************************)
load_data_retry(rows, down, connected) ==
    IF ~connected THEN [df |-> <<>>, outcome |-> "failed", attempts |-> 1, down |-> down]
    ELSE IF down >= 3 THEN [df |-> <<>>, outcome |-> "failed", attempts |-> 3,
                             down |-> down - 3]
    ELSE [df |-> rows, outcome |-> "fetched", attempts |-> down + 1, down |-> 0]

load_data(rows, down, connected) ==
    IF connected /\ down = 0
    THEN [df |-> rows, outcome |-> "fetched", attempts |-> 1, down |-> 0]
    ELSE [df |-> <<>>, outcome |-> "failed", attempts |-> 1,
          down |-> IF connected THEN down - 1 ELSE down]

(***************************************************************************)
(* @st.cache_data(ttl=10), line 55: an entry is served while it is younger *)
(* than ttl and is dropped once it is older; at exactly ttl either may     *)
(* happen (the comparison sits in the framework and the clock is           *)
(* continuous).  age counts the time units since the entry was stored.     *)
(***************************************************************************)
NoCache == [has |-> FALSE, value |-> <<>>, age |-> 0]

may_hit(c) == c.has /\ c.age <= TTL

always_miss(c) == TRUE

may_miss(c) == ~c.has \/ c.age >= TTL

(***************************************************************************)
(* The script run.                                                         *)
(***************************************************************************)
ButtonShown == view \in {"awaiting", "cards", "no_patterns", "fault"}

\* the framework starts the script: module state is fresh in every run
StartRun(kind) ==
    /\ trigger' = kind
    /\ pc' = "connections"
    /\ groq_client' = FALSE
    /\ df' = <<>>
    /\ loadOutcome' = "none"
    /\ attempts' = 0
    /\ stats' = <<>>
    /\ targets' = <<>>
    /\ evidence_lines' = <<>>
    /\ findings' = Unset
    /\ valid_findings' = FALSE
    /\ cards' = <<>>
    /\ view' = "running"
    /\ UNCHANGED <<supabaseOK, groqKey, table, storeDown, cache>>

Open == pc = "idle" /\ StartRun("open")

Refresh == pc = "done" /\ StartRun("refresh")

ClickScan == pc = "done" /\ ButtonShown /\ StartRun("scan")

\* lines 49-53, with the except clause passing instead of stopping
Connections_pass ==
    /\ pc = "connections"
    /\ groq_client' = (supabaseOK /\ groqKey)
    /\ pc' = "load"
    /\ UNCHANGED <<supabaseOK, groqKey, table, storeDown, cache, trigger, df, loadOutcome,
                   attempts, stats, targets, evidence_lines, findings, valid_findings,
                   cards, view>>

\* lines 49-53
Connections ==
    /\ pc = "connections"
    /\ IF supabaseOK
       THEN groq_client' = groqKey /\ pc' = "load" /\ view' = view
       ELSE groq_client' = groq_client /\ pc' = "done" /\ view' = "stopped"
    /\ UNCHANGED <<supabaseOK, groqKey, table, storeDown, cache, trigger, df, loadOutcome,
                   attempts, stats, targets, evidence_lines, findings, valid_findings,
                   cards>>

\* line 62, served from the cache
LoadDataCached ==
    /\ pc = "load"
    /\ may_hit(cache)
    /\ df' = cache.value
    /\ loadOutcome' = "hit"
    /\ attempts' = 0
    /\ pc' = "render"
    /\ UNCHANGED <<supabaseOK, groqKey, table, storeDown, cache, trigger, groq_client,
                   stats, targets, evidence_lines, findings, valid_findings, cards, view>>

\* line 62, running the body of load_data and storing what it returns
LoadDataFetch ==
    /\ pc = "load"
    /\ may_miss(cache)
    /\ LET r == load_data(table, storeDown, supabaseOK)
       IN  /\ loadOutcome' = r.outcome
           /\ attempts' = r.attempts
           /\ storeDown' = r.down
           /\ df' = r.df
           /\ cache' = [has |-> TRUE, value |-> r.df, age |-> 0]
    /\ pc' = "render"
    /\ UNCHANGED <<supabaseOK, groqKey, table, trigger, groq_client, stats, targets,
                   evidence_lines, findings, valid_findings, cards, view>>

\* lines 227-228
RenderStandby ==
    /\ pc = "render"
    /\ df = <<>>
    /\ view' = "standby"
    /\ pc' = "done"
    /\ UNCHANGED <<supabaseOK, groqKey, table, storeDown, cache, trigger, groq_client, df,
                   loadOutcome, attempts, stats, targets, evidence_lines, findings,
                   valid_findings, cards>>

\* lines 135-183
RenderDashboard ==
    /\ pc = "render"
    /\ df # <<>>
    /\ df' = Cleanup(df)
    /\ pc' = "button"
    /\ UNCHANGED <<supabaseOK, groqKey, table, storeDown, cache, trigger, groq_client,
                   loadOutcome, attempts, stats, targets, evidence_lines, findings,
                   valid_findings, cards, view>>

\* lines 207-225: the button was not clicked
AwaitingTrigger ==
    /\ pc = "button"
    /\ trigger # "scan"
    /\ view' = "awaiting"
    /\ pc' = "done"
    /\ UNCHANGED <<supabaseOK, groqKey, table, storeDown, cache, trigger, groq_client, df,
                   loadOutcome, attempts, stats, targets, evidence_lines, findings,
                   valid_findings, cards>>

\* lines 185-190: the button was clicked
GlobalScan ==
    /\ pc = "button"
    /\ trigger = "scan"
    /\ LET r == execute_agent_3(df, groq_client)
       IN  /\ findings' = r.ret
           /\ stats' = r.stats
           /\ targets' = r.targets
           /\ evidence_lines' = r.evidence_lines
    /\ valid_findings' = FALSE
    /\ pc' = "findings"
    /\ UNCHANGED <<supabaseOK, groqKey, table, storeDown, cache, trigger, groq_client, df,
                   loadOutcome, attempts, cards, view>>

\* lines 191-205 (and 210-225 when the loop ends): iterating None raises TypeError
FindingsLoop ==
    /\ pc = "findings"
    /\ IF findings.kind = "list"
       THEN /\ cards' = intel_cards(findings.lines)
            /\ valid_findings' = (cards' # <<>>)
            /\ view' = IF cards' # <<>> THEN "cards" ELSE "no_patterns"
       ELSE /\ cards' = cards
            /\ valid_findings' = valid_findings
            /\ view' = "fault"
    /\ pc' = "done"
    /\ UNCHANGED <<supabaseOK, groqKey, table, storeDown, cache, trigger, groq_client, df,
                   loadOutcome, attempts, stats, targets, evidence_lines, findings>>

(***************************************************************************)
(* The environment: time passes, the store goes down and comes back.       *)
(***************************************************************************)
Tick ==
    /\ cache.has
    /\ cache.age <= TTL
    /\ cache' = [cache EXCEPT !.age = @ + 1]
    /\ UNCHANGED <<supabaseOK, groqKey, table, storeDown, pc, trigger, groq_client, df,
                   loadOutcome, attempts, stats, targets, evidence_lines, findings,
                   valid_findings, cards, view>>

StoreOutage ==
    /\ storeDown = 0
    /\ \E k \in 1..MaxOutage : storeDown' = k
    /\ UNCHANGED <<supabaseOK, groqKey, table, cache, pc, trigger, groq_client, df,
                   loadOutcome, attempts, stats, targets, evidence_lines, findings,
                   valid_findings, cards, view>>

StoreRecover ==
    /\ storeDown > 0
    /\ storeDown' = 0
    /\ UNCHANGED <<supabaseOK, groqKey, table, cache, pc, trigger, groq_client, df,
                   loadOutcome, attempts, stats, targets, evidence_lines, findings,
                   valid_findings, cards, view>>

(***************************************************************************)
(* Spec: the whole script over a store that holds no rows or a few.        *)
(***************************************************************************)
SampleTable ==
    << [vendor_name |-> vendor(1), invoice_id |-> "INV", total_amount |-> "2"],
       [vendor_name |-> vendor(2), invoice_id |-> None,  total_amount |-> None],
       [vendor_name |-> None,      invoice_id |-> "INV", total_amount |-> "1"] >>

RunLocalsInit ==
    /\ groq_client = FALSE
    /\ stats = <<>>
    /\ targets = <<>>
    /\ evidence_lines = <<>>
    /\ findings = Unset
    /\ valid_findings = FALSE
    /\ cards = <<>>
    /\ view = "running"

Init ==
    /\ supabaseOK \in BOOLEAN
    /\ groqKey \in BOOLEAN
    /\ table \in {<<>>, SampleTable}
    /\ storeDown = 0
    /\ cache = NoCache
    /\ pc = "idle"
    /\ trigger = "open"
    /\ df = <<>>
    /\ loadOutcome = "none"
    /\ attempts = 0
    /\ RunLocalsInit

Next ==
    \/ Open
    \/ Refresh
    \/ ClickScan
    \/ Connections
    \/ LoadDataCached
    \/ LoadDataFetch
    \/ RenderStandby
    \/ RenderDashboard
    \/ AwaitingTrigger
    \/ GlobalScan
    \/ FindingsLoop
    \/ Tick
    \/ StoreOutage
    \/ StoreRecover

Spec == Init /\ [][Next]_vars

(***************************************************************************)
(* SpecScan: the scan over every loaded table of a bounded family: up to   *)
(* MaxRows rows of two vendors (or none), after a block of one-invoice     *)
(* vendors whose number is 0 or sits at the head(25) limit.                *)
(***************************************************************************)
BulkSizes == {0, HeadLimit - 1, HeadLimit}

ScanTables ==
    {BulkRows(k) \o t : k \in BulkSizes, t \in SeqsUpTo(RawRows, MaxRows)} \ {<<>>}

ScanLocalsInit ==
    /\ groq_client = TRUE
    /\ stats = <<>>
    /\ targets = <<>>
    /\ evidence_lines = <<>>
    /\ findings = Unset
    /\ valid_findings = FALSE
    /\ cards = <<>>
    /\ view = "running"

ScanInit ==
    /\ supabaseOK = TRUE
    /\ groqKey = TRUE
    /\ table \in ScanTables
    /\ storeDown = 0
    /\ cache = [has |-> TRUE, value |-> table, age |-> 0]
    /\ pc = "render"
    /\ trigger = "scan"
    /\ df = table
    /\ loadOutcome = "fetched"
    /\ attempts = 1
    /\ ScanLocalsInit

ScanNext == RenderDashboard \/ GlobalScan

SpecScan == ScanInit /\ [][ScanNext]_vars

(***************************************************************************)
(* SpecLoop: the findings loop over every list of up to MaxLines lines of  *)
(* a corpus of narration lines.                                            *)
(***************************************************************************)
Corpus ==
    { "TITANIUM :: STRUCTURING (Value: $5k)",
      "noise",
      "STATUS: NOMINAL",
      "STATUS: NOMINAL :: BASELINE",
      "NOMINAL::",
      "a::b",
      "A :: B :: C",
      ":::::::",
      "no separator: here",
      "",
      OfflineLine }

LoopInit ==
    /\ supabaseOK = TRUE
    /\ groqKey = TRUE
    /\ table = SampleTable
    /\ storeDown = 0
    /\ cache = [has |-> TRUE, value |-> table, age |-> 0]
    /\ pc = "findings"
    /\ trigger = "scan"
    /\ df = Cleanup(table)
    /\ loadOutcome = "fetched"
    /\ attempts = 1
    /\ groq_client = TRUE
    /\ stats = <<>>
    /\ targets = <<>>
    /\ evidence_lines = <<>>
    /\ \E ls \in SeqsUpTo(Corpus, MaxLines) : findings = ReturnList(ls)
    /\ valid_findings = FALSE
    /\ cards = <<>>
    /\ view = "running"

LoopNext == FindingsLoop

SpecLoop == LoopInit /\ [][LoopNext]_vars

(***************************************************************************)
(* Properties.                                                             *)
(***************************************************************************)
Range(s) == {s[i] : i \in DOMAIN s}

\* execute_agent_3 was called in this run
AgentCalled == findings.kind # "unset"

\* execute_agent_3 was called with a client and built its aggregates
AgentRan == AgentCalled /\ groq_client

\* C1: a run of the scan pipeline (execute_agent_3 called, its result iterated) ends
\* with finding cards or the 'no high-probability patterns' message on the page,
\* whatever the narration client, and never in an unhandled fault.
C1_ScanEndsRendered ==
    (pc = "done" /\ AgentCalled) => view \in {"cards", "no_patterns"}

\* C2: execute_agent_3 returns a sequence of text lines in every case, and exactly the
\* one sentinel line when there is no narration client; it never returns a value that
\* is not a sequence.
C2_ReturnsLines ==
    AgentCalled =>
        /\ findings.kind = "list"
        /\ ~groq_client => findings.lines = <<OfflineLine>>

\* C3 as claimed: a call of load_data that queries a store which fails fewer than 3
\* queries in a row returns the loaded rows (one of the first 3 attempts succeeds);
\* the empty result comes only after 3 failed attempts.
C3_RetriesThreeTimes ==
    [][(pc = "load" /\ pc' = "render" /\ loadOutcome' # "hit" /\ storeDown < 3)
          => df' = table]_vars

\* C3 as amended: load_data queries the store once per call that is not served from
\* the cache; when that one query succeeds the loaded rows are returned, when it fails
\* the empty result is returned at once, without a retry or a delay.
C3_SingleAttempt ==
    /\ loadOutcome \in {"none", "hit"} => attempts = 0
    /\ loadOutcome = "fetched" => attempts = 1 /\ (pc = "render" => df = table)
    /\ loadOutcome = "failed" => attempts = 1 /\ df = <<>>

\* load_data gave up after one failed query although the store would answer the next
C3_Witness ==
    /\ pc = "render"
    /\ loadOutcome = "failed"
    /\ attempts = 1
    /\ storeDown = 0
    /\ table # <<>>
    /\ df = <<>>

\* C4 as claimed: when the store is unreachable or no credentials are configured, the
\* run ends in the standby ('no data') state.
C4_StandbyWithoutCredentials ==
    (pc = "done" /\ (~supabaseOK \/ loadOutcome = "failed")) => view = "standby"

\* C4 as amended: load_data never raises; when the store is unreachable it returns the
\* empty result and the run ends in the standby state; when the store credentials are
\* not configured the run is halted at the connections (st.stop) with nothing
\* rendered, and load_data is not called.
C4_StandbyOrHalt ==
    /\ loadOutcome \in {"none", "hit", "fetched", "failed"}
    /\ view # "fault" \/ AgentCalled
    /\ loadOutcome = "failed" => df = <<>>
    /\ (pc = "done" /\ loadOutcome = "failed") => view = "standby"
    /\ ~supabaseOK => loadOutcome = "none" /\ df = <<>>
    /\ (pc = "done" /\ ~supabaseOK) => view = "stopped"

\* the store failed, load_data returned the empty result and the page shows standby
C4_Witness ==
    /\ pc = "done"
    /\ supabaseOK
    /\ loadOutcome = "failed"
    /\ table # <<>>
    /\ view = "standby"

\* C5 as claimed: a refresh invalidates the cache, so the load_data call of a run
\* started by a refresh queries the store even inside the freshness window.
C5_RefreshInvalidates ==
    (pc = "render" /\ trigger = "refresh") => loadOutcome # "hit"

\* C5 as amended: the result of load_data is cached for 10 time units: a call while
\* the entry is younger than that is served from the cache without a query of the
\* store, a call after the entry is older queries the store, and no operation of the
\* program invalidates the entry: starting a run (open, refresh, button click) leaves
\* the cache as it is, so a refresh inside the window is served from the cache.
C5_CachedForTTL ==
    [][/\ (pc = "load" /\ pc' # "load" /\ cache.has /\ cache.age < TTL)
            => /\ loadOutcome' = "hit"
               /\ attempts' = 0
               /\ df' = cache.value
               /\ storeDown' = storeDown
               /\ cache' = cache
       /\ (pc = "load" /\ pc' # "load" /\ (~cache.has \/ cache.age > TTL))
            => /\ loadOutcome' \in {"fetched", "failed"}
               /\ attempts' >= 1
               /\ cache'.age = 0
       /\ (pc \in {"idle", "done"} /\ pc' = "connections") => cache' = cache]_vars

\* a run started by a refresh inside the window was served from the cache
C5_Witness ==
    /\ pc = "render"
    /\ trigger = "refresh"
    /\ loadOutcome = "hit"
    /\ cache.age > 0
    /\ cache.age < TTL

RECURSIVE SumCounts(_)
SumCounts(s) == IF s = <<>> THEN 0 ELSE Head(s).txn_count + SumCounts(Tail(s))

\* C7: the vendor aggregation is total: the txn_count of all groups add up to the
\* number of rows of the table, rows with a missing invoice_id or vendor_name
\* included, and no group has a txn_count of zero.
C7_GroupingTotal ==
    AgentRan =>
        /\ SumCounts(stats) = Len(df)
        /\ \A g \in Range(stats) : g.txn_count > 0

\* C8: the target list never holds more than 25 vendor aggregates, and the evidence
\* block never more than 25 lines, however many vendors the table has.
C8_AtMostHeadLimit ==
    AgentRan => Len(targets) <= HeadLimit /\ Len(evidence_lines) <= HeadLimit

\* more vendors than the limit, and the targets cut to it
C8_Witness ==
    /\ AgentRan
    /\ Len(stats) > HeadLimit
    /\ Len(targets) = HeadLimit
    /\ Len(evidence_lines) = HeadLimit

RanksAbove(a, b) ==
    \/ a.total_spend > b.total_spend
    \/ a.total_spend = b.total_spend /\ a.txn_count > b.txn_count

\* C9: in the target list an aggregate with a larger total_spend comes before one with
\* a smaller, whatever their txn_count; aggregates of equal total_spend are in
\* descending txn_count; and no aggregate left out of the list ranks above one in it.
C9_OrderedPrefix ==
    AgentRan =>
        /\ \A i, j \in DOMAIN targets : RanksAbove(targets[i], targets[j]) => i < j
        /\ \A g \in Range(stats) \ Range(targets) :
               \A t \in Range(targets) : ~RanksAbove(g, t)

\* a target with the larger spend and the smaller count comes first, two targets tie
\* on spend, and an aggregate was left out
C9_Witness ==
    /\ AgentRan
    /\ Len(stats) > Len(targets)
    /\ \E i, j \in DOMAIN targets :
           /\ i < j
           /\ targets[i].total_spend > targets[j].total_spend
           /\ targets[i].txn_count < targets[j].txn_count
    /\ \E i, j \in DOMAIN targets :
           /\ targets[i].total_spend = targets[j].total_spend
           /\ targets[i].txn_count > targets[j].txn_count

\* the finding shape and the status keywords, as the claim words them
HasFindingShape(line) == Len(line) > 5 /\ Contains(line, "::")

HasStatusKeyword(line) == Contains(line, "STATUS:") \/ Contains(line, "NOMINAL")

CountWhere(lines, P(_)) == Cardinality({i \in DOMAIN lines : P(lines[i])})

====
